---- MODULE Spec2Model ----
(***************************************************************************)
(* Load-testing harness of the distributed voting system:                  *)
(*   scripts/experimento-rapido.py       (class ExperimentoRapido)         *)
(*   scripts/experimento-rendimiento.py  (class ExperimentoSistemaElectoral)*)
(*                                                                         *)
(* The model follows one suite run (iniciar_experimentos): the main thread *)
(* runs ejecutar_experimento, which starts one sampler thread              *)
(* (monitorear_recursos), consultas_concurrentes query threads             *)
(* (simular_consultas) and one vote thread (simular_votos), joins them and *)
(* reduces the shared dict metricas.                                       *)
(*                                                                         *)
(* Time.  time.time() is the variable now, in clock ticks.  A blocking     *)
(* call (time.sleep, an HTTP call, psutil.cpu_percent(interval=1)) lasts a *)
(* whole number of ticks; every other statement takes no time, so the      *)
(* clock advances (Tick) only when every live thread is blocked.  All      *)
(* interleavings of the threads' steps within one instant are explored.    *)
(* The durations of the code (60 s per minute, 0.1 s, 2 s, 10 s ...) are   *)
(* scaled down to a few ticks; their order is kept.  Two runs are timed    *)
(* exactly, in ticks of 10 ms: the end-to-end scenario and the long run    *)
(* whose latencies are reduced.  Where the outcome                         *)
(* depends on the time the statements themselves take (duracion_real of a  *)
(* run without any blocking call), both outcomes are kept: the two reads   *)
(* of the clock are equal, or a part of a tick apart.                      *)
(*                                                                         *)
(* Failures.  Inside a try body the operation of the worker (the           *)
(* simulated query or vote submission, the psutil calls) may raise, and so *)
(* may time.sleep(intervalo_votos), whose argument comes from the          *)
(* configuration and which always raises ValueError when that argument is  *)
(* negative; consultar_endpoint and enviar_voto_simulado swallow every     *)
(* failure themselves (bare except).  At most MaxFallas failures are        *)
(* raised by choice in one run.                                            *)
(*                                                                         *)
(* Floats are exact rationals [num, den] with den > 0.                     *)
(***************************************************************************)
EXTENDS Integers, Sequences, FiniteSets, TLC

VARIABLES
    harness,          \* "rapido" | "rendimiento": which script runs
    configuraciones,  \* self.configuraciones
    resultados,       \* self.resultados
    i,                \* loop index of iniciar_experimentos (1-based)
    mainpc,           \* position of the main thread
    excepcion,        \* exception that ended the main thread, or "ninguna"
    inicio,           \* ejecutar_experimento: inicio = time.time()
    metricas,         \* ejecutar_experimento: the shared dict of the run
    hilos,            \* the worker threads of the run: id -> local state
    pendientes,       \* ejecutar_experimento: threads still to be joined
    despierta,        \* the instant the main thread's time.sleep returns
    muestras_cpu,     \* monitorear_recursos: local list
    muestras_memoria, \* monitorear_recursos: local list
    now,              \* time.time()
    cuenta            \* history of the run: what the workers did

vars == <<harness, configuraciones, resultados, i, mainpc, excepcion, inicio,
          metricas, hilos, pendientes, despierta, muestras_cpu,
          muestras_memoria, now, cuenta>>

----------------------------------------------------------------------------
(* Bounds of the model *)

\* the values a configuration draws consultas_concurrentes, votos_por_minuto
\* and duracion_minutos from.  For consultas_concurrentes and
\* duracion_minutos 0 stands for the non-positive values (range(n) is empty
\* and the deadline is passed at once for both); votos_por_minuto = 0 makes
\* 60.0 / votos_por_minuto raise, a negative one gives a negative interval
ConsultasPosibles == {0, 1, 2}
VotosMinPosibles == {-1, 0, 1, 2}
DuracionesPosibles == {0, 1}
\* most query threads a modelled run starts (the end-to-end scenario)
MaxConsultas == 5
\* longest simulated operation, in ticks
MaxLatencia == 2
\* most failures raised inside the workers of one run
MaxFallas == 2

----------------------------------------------------------------------------
(* Rationals *)

Rat(n, d) == [num |-> n, den |-> d]
Cero == Rat(0, 1)

\* s[a] + ... + s[b], by halves (which keeps the evaluation shallow on the
\* long lists)
RECURSIVE SumaEntre(_, _, _)
SumaEntre(s, a, b) ==
    IF a > b THEN 0
    ELSE IF a = b THEN s[a]
    ELSE LET h == (a + b) \div 2
         IN SumaEntre(s, a, h) + SumaEntre(s, h + 1, b)

\* sum()
Suma(s) == SumaEntre(s, 1, Len(s))

\* max(): the entry no other entry exceeds; needs s # <<>>
Maximo(s) ==
    CHOOSE v \in {s[k] : k \in 1..Len(s)} : \A k \in 1..Len(s) : s[k] <= v

\* statistics.mean
Media(s) == Rat(Suma(s), Len(s))

\* how many entries of s are below v / are v
CuantosMenores(s, v) == Cardinality({k \in 1..Len(s) : s[k] < v})
CuantosIguales(s, v) == Cardinality({k \in 1..Len(s) : s[k] = v})

\* sorted(): ascending; the entry at position k is the value with fewer
\* than k entries below it and at least k entries not above it
Ordenar(s) ==
    LET valores == {s[k] : k \in 1..Len(s)}
        desde == [v \in valores |-> CuantosMenores(s, v)]
        hasta == [v \in valores |-> desde[v] + CuantosIguales(s, v)]
    IN [k \in 1..Len(s) |->
           CHOOSE v \in valores : desde[v] < k /\ k <= hasta[v]]

\* statistics.quantiles(data, n=20)[18], method 'exclusive'; needs Len(s) >= 2
Cuantil19(s) ==
    LET data == Ordenar(s)
        ld == Len(s)
        m == ld + 1
        j0 == (19 * m) \div 20
        j == IF j0 < 1 THEN 1 ELSE IF j0 > ld - 1 THEN ld - 1 ELSE j0
        delta == 19 * m - j * 20
    IN Rat(data[j] * (20 - delta) + data[j + 1] * delta, 20)

\* int(len(latencias) * 0.95), as a 0-based index
IndiceP95(n) == (n * 95) \div 100

\* mutant: the list is indexed without being sorted
P95SinOrdenar(s) == s[IndiceP95(Len(s)) + 1]

\* sorted(metricas['latencias'])[int(len(metricas['latencias']) * 0.95)]
P95Rapido(s) == Ordenar(s)[IndiceP95(Len(s)) + 1]

----------------------------------------------------------------------------
(* Constants of the two scripts, in ticks *)

Harnesses == {"rapido", "rendimiento"}

\* the configuration of the end-to-end scenario
ConfigEscenario ==
    [consultas_concurrentes |-> 5, votos_por_minuto |-> 50, duracion_minutos |-> 1]

\* the long run whose latencies are reduced: two query threads, four votes
\* per minute, one minute
ConfigEstad ==
    [consultas_concurrentes |-> 2, votos_por_minuto |-> 4, duracion_minutos |-> 1]

\* the runs of these two configurations are timed in ticks of 10 ms, every
\* other run in the coarse ticks
Fino == metricas.configuracion \in {ConfigEscenario, ConfigEstad}

\* ticks per configured minute: the 60 of duracion_minutos * 60 and of
\* 60.0 / votos_por_minuto
TicksPorMinuto == IF Fino THEN 6000 ELSE 2

\* milliseconds a tick counts for in (time.time() - inicio_x) * 1000: a
\* minute is 60000 ms
MsPorTick == 60000 \div TicksPorMinuto

\* mutant: the minutes are handed over as they are
DuracionSinEscalar(d) == d

\* duracion_minutos * 60, the duration handed to every worker
DuracionSegundos(d) == d * TicksPorMinuto

\* mutant: 60 // votos_por_minuto, whole seconds
IntervaloVotosEntero(v) ==
    IF v > 0 THEN ((60 \div v) * TicksPorMinuto) \div 60
    ELSE 0 - (((60 \div (0 - v)) * TicksPorMinuto) \div 60)

\* intervalo_votos = 60.0 / votos_por_minuto (v # 0), in ticks, rounded
\* towards 0; negative for a negative v
IntervaloVotos(v) ==
    IF v > 0 THEN TicksPorMinuto \div v ELSE 0 - (TicksPorMinuto \div (0 - v))

\* time.sleep(0.1) between two queries
PausaConsulta == IF Fino THEN 10 ELSE 1

\* psutil.cpu_percent(interval=1) blocks for its interval
IntervaloCpu == IF Fino THEN 100 ELSE 1

\* time.sleep(2) / time.sleep(5) between two samples
PausaMonitoreo(h) ==
    IF Fino THEN (IF h = "rapido" THEN 200 ELSE 500)
    ELSE (IF h = "rapido" THEN 1 ELSE 2)

\* mutant: the suite does not pause
EnfriamientoNulo(h) == 0

\* time.sleep(10) / time.sleep(30) after every experiment
Enfriamiento(h) == IF h = "rapido" THEN 1 ELSE 2

\* how long one query operation may last: time.sleep(random.uniform(0.01,
\* 0.05)) / two consultar_endpoint calls (requests.get with timeout=5)
LatenciasConsulta(h) == IF Fino THEN 1..5 ELSE 1..MaxLatencia

\* how long one vote submission may last: time.sleep(random.uniform(0.02,
\* 0.08)) / enviar_voto_simulado: time.sleep(0.05)
LatenciasVoto(h) ==
    IF Fino THEN (IF h = "rapido" THEN 2..8 ELSE {5})
    ELSE (IF h = "rapido" THEN 1..MaxLatencia ELSE {1})

\* what psutil may report: (cpu_percent, memoria_info.used / (1024 * 1024))
Muestras == {<<20, 100>>, <<40, 300>>}

----------------------------------------------------------------------------
(* Threads *)

\* mutant: a second thread runs simular_votos on the same record
NumHilosVotosDos == 1 + 1

\* exactly one hilo_votos is created by ejecutar_experimento
NumHilosVotos == 1

Monitoreo == <<"monitoreo", 0>>
HilosConsulta == {<<"consulta", k>> : k \in 1..MaxConsultas}
HilosVotos == {<<"votos", k>> : k \in 1..NumHilosVotos}
Hilos == {Monitoreo} \cup HilosConsulta \cup HilosVotos

Tipo(t) == t[1]

\* a thread object that was not created or not started yet (ultima: the
\* instant the sampler collected its last sample).  pc = "iniciado": start()
\* was called on the thread and it has not run its first statement yet
HiloNuevo ==
    [pc |-> "nuevo", dur |-> 0, intervalo |-> 0, fin |-> 0, ini |-> 0,
     despierta |-> 0, lat |-> 0, exito |-> FALSE, tmp |-> 0,
     dp |-> 0, df |-> 0, dl |-> 0, intentos |-> 0, ultima |-> 0]

Vivo(h) == h.pc \notin {"nuevo", "fin"}
Iniciados == {t \in Hilos : hilos[t].pc # "nuevo"}
Terminados == {t \in Hilos : hilos[t].pc = "fin"}

RECURSIVE SecConsultas(_, _)
SecConsultas(k, n) ==
    IF k > n THEN <<>> ELSE <<(<<"consulta", k>>)>> \o SecConsultas(k + 1, n)

RECURSIVE SecVotos(_)
SecVotos(k) ==
    IF k > NumHilosVotos THEN <<>> ELSE <<(<<"votos", k>>)>> \o SecVotos(k + 1)

\* mutant: the vote thread is started but never joined
OrdenUnionSinVotos(h, n) ==
    IF h = "rapido"
    THEN <<Monitoreo>> \o SecConsultas(1, n)
    ELSE SecConsultas(1, n) \o <<Monitoreo>>

\* mutant: the sampler thread is started but never joined
OrdenUnionSinMonitoreo(h, n) == SecConsultas(1, n) \o SecVotos(1)

\* the order in which ejecutar_experimento joins the threads it started:
\* rapido: for hilo in hilos (monitor, queries, votes);
\* rendimiento: hilos_consulta, hilo_votos, hilo_monitoreo
OrdenUnion(h, n) ==
    IF h = "rapido"
    THEN <<Monitoreo>> \o SecConsultas(1, n) \o SecVotos(1)
    ELSE SecConsultas(1, n) \o SecVotos(1) \o <<Monitoreo>>

----------------------------------------------------------------------------
(* The record of one run *)

\* the configurations a run is given; a negative votos_por_minuto is run
\* with at most one query thread
Configuraciones ==
    {c \in [consultas_concurrentes : ConsultasPosibles,
            votos_por_minuto : VotosMinPosibles,
            duracion_minutos : DuracionesPosibles] :
        c.votos_por_minuto < 0 => c.consultas_concurrentes <= 1}

SinConfiguracion ==
    [consultas_concurrentes |-> 0, votos_por_minuto |-> 0, duracion_minutos |-> 0]

\* metricas = {...}: claves is the set of keys added later to the dict
\* (latencia_promedio, latencia_p95, latencia_max, duracion_real, throughput,
\* tasa_error); the value kept for a key that is not in claves means nothing.
\* duracion_real is kept as whole ticks (duracion_real) plus duracion_resto
\* parts of a tick
MetricasNuevas(c, t) ==
    [configuracion |-> c, timestamp |-> t, latencias |-> <<>>,
     votos_procesados |-> 0, votos_fallidos |-> 0,
     uso_cpu_promedio |-> Cero, uso_memoria_promedio |-> Cero,
     errores |-> <<>>, claves |-> {},
     latencia_promedio |-> Cero, latencia_p95 |-> Cero, latencia_max |-> Cero,
     duracion_real |-> 0, duracion_resto |-> 0,
     throughput |-> Cero, tasa_error |-> Cero]

\* mutant: the dict of the run before is used again for the new run
RegistroReusado(c, t) == [metricas EXCEPT !.configuracion = c, !.timestamp = t]

\* ejecutar_experimento: metricas = {...}, a new dict in every call
RegistroDeLaCorrida(c, t) == MetricasNuevas(c, t)

\* what the workers of the run did, whatever became of the record; sorteos
\* is the number of draws taken from the generator of the random module,
\* which all the threads share; fallas_consulta is the number of query
\* operations in which a failure was raised
CuentaNueva ==
    [anexos |-> 0, exitos |-> 0, fallos |-> 0, fallas |-> 0, sorteos |-> 0,
     fallas_consulta |-> 0]

Config == metricas.configuracion

----------------------------------------------------------------------------
Init ==
    /\ harness \in Harnesses
    /\ configuraciones \in {<<c>> : c \in Configuraciones}
    /\ resultados = <<>>
    /\ i = 1
    /\ mainpc = "suite"
    /\ excepcion = "ninguna"
    /\ inicio = 0
    /\ metricas = MetricasNuevas(SinConfiguracion, 0)
    /\ hilos = [t \in Hilos |-> HiloNuevo]
    /\ pendientes = <<>>
    /\ despierta = 0
    /\ muestras_cpu = <<>>
    /\ muestras_memoria = <<>>
    /\ now = 0
    /\ cuenta = CuentaNueva

----------------------------------------------------------------------------
\* (time.time() - inicio_x) * 1000
LatenciaMs(t0, t1) == (t1 - t0) * MsPorTick

\* mutant: the loop test is written the wrong way round
VigenteAlReves(t, fin) == t > fin

\* mutant: the loop goes on at the deadline itself
VigenteInclusive(t, fin) == t <= fin

\* while time.time() < fin
Vigente(t, fin) == t < fin

\* the blocking call the thread is in has lasted its time
Cumplido(t) == now >= hilos[t].despierta

\* the blocking call the thread is in may raise
PuedeFallar == cuenta.fallas < MaxFallas
Falla == [cuenta EXCEPT !.fallas = @ + 1]

(* The loop heads of the three workers: what a worker does from its loop     *)
(* test to the blocking call that follows                                   *)

\* while time.time() < fin: inicio_consulta = time.time(); the operation starts
BucleConsulta(h) ==
    IF Vigente(now, h.fin)
    THEN {[h EXCEPT !.pc = "op", !.ini = now, !.despierta = now + lat] :
             lat \in LatenciasConsulta(harness)}
    ELSE {[h EXCEPT !.pc = "fin"]}

\* while time.time() < fin: inicio_voto = time.time(); the submission starts
\* (dp, df, dl: what this attempt has added to votos_procesados,
\* votos_fallidos and latencias so far)
BucleVoto(h) ==
    IF Vigente(now, h.fin)
    THEN {[h EXCEPT !.pc = "op", !.ini = now, !.despierta = now + lat,
                    !.dp = 0, !.df = 0, !.dl = 0, !.intentos = @ + 1] :
             lat \in LatenciasVoto(harness)}
    ELSE {[h EXCEPT !.pc = "fin"]}

\* while time.time() < fin: psutil.cpu_percent(interval=1) starts
BucleMonitoreo(h) ==
    IF Vigente(now, h.fin)
    THEN [h EXCEPT !.pc = "op", !.ini = now, !.despierta = now + IntervaloCpu]
    ELSE [h EXCEPT !.pc = "promedios"]

\* rapido: a query or a submission that starts takes one draw,
\* time.sleep(random.uniform(...))
Sorteado(h) ==
    [cuenta EXCEPT !.sorteos = IF harness = "rapido" /\ h.pc = "op"
                               THEN @ + 1 ELSE @]

\* threading.Thread(target=..., args=(metricas, [intervalo,] dur)); .start():
\* the thread object with its arguments, about to run
Lanzado(dur, intervalo) ==
    [HiloNuevo EXCEPT !.pc = "iniciado", !.dur = dur, !.intervalo = intervalo]

\* mutant: the deadline of the thread is the instant it starts
ArranquesSinPlazo(tipo, dur, intervalo) ==
    LET h == [HiloNuevo EXCEPT !.dur = dur, !.intervalo = intervalo,
                               !.fin = now]
    IN IF tipo = "consulta" THEN BucleConsulta(h)
       ELSE IF tipo = "votos" THEN BucleVoto(h)
       ELSE {BucleMonitoreo(h)}

\* the first statements of a started thread: fin = time.time() +
\* duracion_segundos, then its loop test
Arranques(tipo, dur, intervalo) ==
    LET h == [HiloNuevo EXCEPT !.dur = dur, !.intervalo = intervalo,
                               !.fin = now + dur]
    IN IF tipo = "consulta" THEN BucleConsulta(h)
       ELSE IF tipo = "votos" THEN BucleVoto(h)
       ELSE {BucleMonitoreo(h)}

----------------------------------------------------------------------------
(* The main thread: iniciar_experimentos and ejecutar_experimento *)

\* for ... in enumerate(self.configuraciones): ejecutar_experimento(...):
\* inicio = time.time(); metricas = {...}
IniciarExperimento ==
    /\ mainpc = "suite"
    /\ i <= Len(configuraciones)
    /\ inicio' = now
    /\ metricas' = RegistroDeLaCorrida(configuraciones[i], now)
    /\ hilos' = [t \in Hilos |-> HiloNuevo]
    /\ pendientes' = <<>>
    /\ cuenta' = CuentaNueva
    /\ mainpc' = "lanzar_monitoreo"
    /\ UNCHANGED <<harness, configuraciones, resultados, i, excepcion,
                   despierta, muestras_cpu, muestras_memoria, now>>

\* generar_analisis_estadistico of rendimiento: max(throughputs), max(cpu_uso)
\* and max(memoria_uso) are taken without a guard and raise ValueError on an
\* empty self.resultados; rapido tests if throughputs: first
InformeFalla(h, rs) == h = "rendimiento" /\ rs = <<>>

\* the for loop is exhausted: self.generar_informe(), whose files are not
\* modelled, and return
TerminarSuite ==
    /\ mainpc = "suite"
    /\ i > Len(configuraciones)
    /\ IF InformeFalla(harness, resultados)
       THEN excepcion' = "ValueError" /\ mainpc' = "error"
       ELSE mainpc' = "fin" /\ UNCHANGED excepcion
    /\ UNCHANGED <<harness, configuraciones, resultados, i, inicio,
                   metricas, hilos, pendientes, despierta, muestras_cpu,
                   muestras_memoria, now, cuenta>>

\* hilo_monitoreo = threading.Thread(...); hilo_monitoreo.start()
LanzarMonitoreo ==
    /\ mainpc = "lanzar_monitoreo"
    /\ hilos' = [hilos EXCEPT ![Monitoreo] =
                     Lanzado(DuracionSegundos(Config.duracion_minutos), 0)]
    /\ mainpc' = "lanzar_consultas"
    /\ UNCHANGED <<harness, configuraciones, resultados, i, excepcion, inicio,
                   metricas, pendientes, despierta, muestras_cpu,
                   muestras_memoria, now, cuenta>>

ConsultasLanzadas == Cardinality({t \in Iniciados : Tipo(t) = "consulta"})

\* for i in range(consultas_concurrentes): hilo = threading.Thread(...);
\* hilo.start()
LanzarConsulta ==
    /\ mainpc = "lanzar_consultas"
    /\ ConsultasLanzadas < Config.consultas_concurrentes
    /\ hilos' = [hilos EXCEPT ![<<"consulta", ConsultasLanzadas + 1>>] =
                     Lanzado(DuracionSegundos(Config.duracion_minutos), 0)]
    /\ UNCHANGED <<harness, configuraciones, resultados, i, mainpc, excepcion,
                   inicio, metricas, pendientes, despierta, muestras_cpu,
                   muestras_memoria, now, cuenta>>

\* intervalo_votos = 60.0 / votos_por_minuto; hilo_votos = ...; .start()
LanzarVotos ==
    /\ mainpc = "lanzar_consultas"
    /\ ConsultasLanzadas >= Config.consultas_concurrentes
    /\ IF Config.votos_por_minuto = 0
       THEN /\ excepcion' = "ZeroDivisionError"
            /\ mainpc' = "error"
            /\ UNCHANGED <<hilos, pendientes>>
       ELSE /\ hilos' = [t \in Hilos |->
                            IF t \in HilosVotos
                            THEN Lanzado(DuracionSegundos(Config.duracion_minutos),
                                         IntervaloVotos(Config.votos_por_minuto))
                            ELSE hilos[t]]
            /\ pendientes' = OrdenUnion(harness, Config.consultas_concurrentes)
            /\ mainpc' = "unir"
            /\ UNCHANGED excepcion
    /\ UNCHANGED <<harness, configuraciones, resultados, i, inicio, metricas,
                   despierta, muestras_cpu, muestras_memoria, now, cuenta>>

\* mutant: join returns at once, whether or not the thread has terminated
UnirSinEsperar ==
    /\ mainpc = "unir"
    /\ pendientes # <<>>
    /\ pendientes' = Tail(pendientes)
    /\ UNCHANGED <<harness, configuraciones, resultados, i, mainpc, excepcion,
                   inicio, metricas, hilos, despierta, muestras_cpu,
                   muestras_memoria, now, cuenta>>

\* hilo.join(): returns once that thread has terminated
Unir ==
    /\ mainpc = "unir"
    /\ pendientes # <<>>
    /\ hilos[Head(pendientes)].pc = "fin"
    /\ pendientes' = Tail(pendientes)
    /\ UNCHANGED <<harness, configuraciones, resultados, i, mainpc, excepcion,
                   inicio, metricas, hilos, despierta, muestras_cpu,
                   muestras_memoria, now, cuenta>>

ClavesLatencia == {"latencia_promedio", "latencia_p95", "latencia_max"}

\* rapido: if metricas['latencias']: ... else: ... (all three keys are set)
LatenciasRapido(m) ==
    IF m.latencias # <<>>
    THEN [m EXCEPT !.latencia_promedio = Media(m.latencias),
                   !.latencia_p95 = Rat(P95Rapido(m.latencias), 1),
                   !.latencia_max = Rat(Maximo(m.latencias), 1),
                   !.claves = @ \cup ClavesLatencia]
    ELSE [m EXCEPT !.latencia_promedio = Cero,
                   !.latencia_p95 = Cero,
                   !.latencia_max = Cero,
                   !.claves = @ \cup ClavesLatencia]

\* rendimiento: if metricas['latencias']: ... (no else);
\* statistics.quantiles raises StatisticsError on fewer than two values
QuantilesFalla(m) == Len(m.latencias) = 1

LatenciasRendimiento(m) ==
    IF m.latencias # <<>>
    THEN [m EXCEPT !.latencia_promedio = Media(m.latencias),
                   !.latencia_p95 = Cuantil19(m.latencias),
                   !.latencia_max = Rat(Maximo(m.latencias), 1),
                   !.claves = @ \cup ClavesLatencia]
    ELSE m

\* "Calcular metricas finales", first part
CalcularLatencias ==
    /\ mainpc = "unir"
    /\ pendientes = <<>>
    /\ IF harness = "rapido"
       THEN /\ metricas' = LatenciasRapido(metricas)
            /\ mainpc' = "derivar"
            /\ UNCHANGED excepcion
       ELSE IF QuantilesFalla(metricas)
       THEN /\ metricas' = [metricas EXCEPT
                  !.latencia_promedio = Media(metricas.latencias),
                  !.claves = @ \cup {"latencia_promedio"}]
            /\ excepcion' = "StatisticsError"
            /\ mainpc' = "error"
       ELSE /\ metricas' = LatenciasRendimiento(metricas)
            /\ mainpc' = "derivar"
            /\ UNCHANGED excepcion
    /\ UNCHANGED <<harness, configuraciones, resultados, i, inicio, hilos,
                   pendientes, despierta, muestras_cpu, muestras_memoria, now,
                   cuenta>>

\* votos_procesados / (duracion_real / 60), in votes per minute
Throughput(vp, dr) == Rat(vp * TicksPorMinuto, dr)

\* the parts a tick is divided in: the statements of the main thread between
\* two reads of the clock take one part when they take any time
PartesPorTick == 1000

\* what time.time() - inicio may hold beyond the whole ticks.  With a
\* blocking call between inicio = time.time() and this read the time the
\* statements take is not counted.  With none, the two reads are equal (a
\* clock coarser than the statements are long) or a part of a tick apart
RestosPosibles(dr) == IF dr = 0 THEN {0, 1} ELSE {0}

\* votos_procesados / (duracion_real / 60) for dr ticks and resto parts
ThroughputDe(vp, dr, resto) ==
    IF resto = 0 THEN Throughput(vp, dr)
    ELSE Rat(vp * TicksPorMinuto * PartesPorTick, dr * PartesPorTick + resto)

\* rapido: ... if metricas['duracion_real'] > 0 else 0
ThroughputRapido(vp, dr, resto) ==
    IF dr > 0 \/ resto > 0 THEN ThroughputDe(vp, dr, resto) ELSE Cero

\* rendimiento divides without a guard
ThroughputFalla(h, dr, resto) == h = "rendimiento" /\ dr = 0 /\ resto = 0

\* mutant: the failed votes are divided by the processed ones
TasaErrorSobreProcesados(vp, vf) == IF vp > 0 THEN Rat(vf * 100, vp) ELSE Cero

\* (votos_fallidos / total) * 100 if total > 0 else 0
TasaError(vp, vf) == IF vp + vf > 0 THEN Rat(vf * 100, vp + vf) ELSE Cero

ClavesDerivadas == {"duracion_real", "throughput", "tasa_error"}

Derivadas(h, m, dr, resto) ==
    [m EXCEPT !.duracion_real = dr,
              !.duracion_resto = resto,
              !.throughput = IF h = "rapido"
                             THEN ThroughputRapido(m.votos_procesados, dr, resto)
                             ELSE ThroughputDe(m.votos_procesados, dr, resto),
              !.tasa_error = TasaError(m.votos_procesados, m.votos_fallidos),
              !.claves = @ \cup ClavesDerivadas]

\* mutant: the new record is put in front of the earlier ones
AnexarAlFrente(rs, r) == <<r>> \o rs

\* self.resultados.append(resultado)
AnexarResultado(rs, r) == Append(rs, r)

\* "Calcular metricas finales", second part; return metricas
CalcularDerivadas ==
    /\ mainpc = "derivar"
    /\ \E resto \in RestosPosibles(now - inicio) :
          IF ThroughputFalla(harness, now - inicio, resto)
          THEN /\ metricas' = [metricas EXCEPT !.duracion_real = now - inicio,
                                               !.claves = @ \cup {"duracion_real"}]
               /\ excepcion' = "ZeroDivisionError"
               /\ mainpc' = "error"
          ELSE /\ metricas' = Derivadas(harness, metricas, now - inicio, resto)
               /\ mainpc' = "devuelto"
               /\ UNCHANGED excepcion
    /\ UNCHANGED <<harness, configuraciones, resultados, i, inicio, hilos,
                   pendientes, despierta, muestras_cpu, muestras_memoria, now,
                   cuenta>>

\* iniciar_experimentos: resultado = self.ejecutar_experimento(...);
\* self.resultados.append(resultado); time.sleep(10) / time.sleep(30) starts
RegistrarResultado ==
    /\ mainpc = "devuelto"
    /\ resultados' = AnexarResultado(resultados, metricas)
    /\ despierta' = now + Enfriamiento(harness)
    /\ mainpc' = "enfriar"
    /\ UNCHANGED <<harness, configuraciones, i, excepcion, inicio, metricas,
                   hilos, pendientes, muestras_cpu, muestras_memoria, now,
                   cuenta>>

\* the cooldown sleep returns; next configuration
FinEnfriamiento ==
    /\ mainpc = "enfriar"
    /\ now >= despierta
    /\ i' = i + 1
    /\ mainpc' = "suite"
    /\ UNCHANGED <<harness, configuraciones, resultados, excepcion, inicio,
                   metricas, hilos, pendientes, despierta, muestras_cpu,
                   muestras_memoria, now, cuenta>>

----------------------------------------------------------------------------
(* The worker threads.  A step of a worker is one access to the shared      *)
(* record, or the end of a blocking call, together with the local          *)
(* statements that follow it up to the next such point.                     *)

mainvars == <<harness, configuraciones, resultados, i, mainpc, excepcion,
              inicio, pendientes, despierta>>

\* a started thread runs its first statements up to its first blocking
\* call: fin = time.time() + duracion_segundos (monitorear_recursos also
\* creates its two lists), the loop test, inicio_x = time.time() and, in
\* rapido, the draw of the simulated duration
HiloArranca(t) ==
    /\ hilos[t].pc = "iniciado"
    /\ \E h \in Arranques(Tipo(t), hilos[t].dur, hilos[t].intervalo) :
          /\ hilos' = [hilos EXCEPT ![t] = h]
          /\ cuenta' = IF Tipo(t) = "monitoreo" THEN cuenta ELSE Sorteado(h)
    /\ IF Tipo(t) = "monitoreo"
       THEN muestras_cpu' = <<>> /\ muestras_memoria' = <<>>
       ELSE UNCHANGED <<muestras_cpu, muestras_memoria>>
    /\ UNCHANGED <<mainvars, metricas, now>>

(* simular_consultas *)

\* mutant: a query thread counts its query as a processed vote
ConsultaOpCuentaVoto(t) ==
    /\ Tipo(t) = "consulta"
    /\ hilos[t].pc = "op"
    /\ Cumplido(t)
    /\ metricas' = [metricas EXCEPT
           !.latencias = Append(@, LatenciaMs(hilos[t].ini, now)),
           !.votos_procesados = @ + 1]
    /\ cuenta' = [cuenta EXCEPT !.anexos = @ + 1]
    /\ hilos' = [hilos EXCEPT ![t].pc = "pausa",
                              ![t].despierta = now + PausaConsulta]
    /\ UNCHANGED <<mainvars, muestras_cpu, muestras_memoria, now>>

\* the operation is over: latencia = ...; metricas['latencias'].append(latencia);
\* time.sleep(0.1) starts
ConsultaOp(t) ==
    /\ Tipo(t) = "consulta"
    /\ hilos[t].pc = "op"
    /\ Cumplido(t)
    /\ metricas' = [metricas EXCEPT
           !.latencias = Append(@, LatenciaMs(hilos[t].ini, now))]
    /\ cuenta' = [cuenta EXCEPT !.anexos = @ + 1]
    /\ hilos' = [hilos EXCEPT ![t].pc = "pausa",
                              ![t].despierta = now + PausaConsulta]
    /\ UNCHANGED <<mainvars, muestras_cpu, muestras_memoria, now>>

\* rendimiento: requests.get(url, timeout=5) raises inside consultar_endpoint
\* (connection refused, timeout); except: return False, and simular_consultas
\* drops the returned value and goes on as after a call that succeeded
ConsultaOpCaida(t) ==
    /\ Tipo(t) = "consulta"
    /\ harness = "rendimiento"
    /\ hilos[t].pc = "op"
    /\ Cumplido(t)
    /\ PuedeFallar
    /\ metricas' = [metricas EXCEPT
           !.latencias = Append(@, LatenciaMs(hilos[t].ini, now))]
    /\ cuenta' = [Falla EXCEPT !.anexos = @ + 1, !.fallas_consulta = @ + 1]
    /\ hilos' = [hilos EXCEPT ![t].pc = "pausa",
                              ![t].despierta = now + PausaConsulta]
    /\ UNCHANGED <<mainvars, muestras_cpu, muestras_memoria, now>>

\* the operation raises (rapido; consultar_endpoint swallows every failure)
ConsultaOpFalla(t) ==
    /\ Tipo(t) = "consulta"
    /\ harness = "rapido"
    /\ hilos[t].pc = "op"
    /\ Cumplido(t)
    /\ PuedeFallar
    /\ cuenta' = [Falla EXCEPT !.fallas_consulta = @ + 1]
    /\ hilos' = [hilos EXCEPT ![t].pc = "except"]
    /\ UNCHANGED <<mainvars, metricas, muestras_cpu, muestras_memoria, now>>

\* time.sleep(0.1) returns; loop test
ConsultaPausa(t) ==
    /\ Tipo(t) = "consulta"
    /\ hilos[t].pc = "pausa"
    /\ Cumplido(t)
    /\ \E h \in BucleConsulta(hilos[t]) :
          /\ hilos' = [hilos EXCEPT ![t] = h]
          /\ cuenta' = Sorteado(h)
    /\ UNCHANGED <<mainvars, metricas, muestras_cpu, muestras_memoria, now>>

\* except Exception as e: metricas['errores'].append(...); loop test
ConsultaExcept(t) ==
    /\ Tipo(t) = "consulta"
    /\ hilos[t].pc = "except"
    /\ metricas' = [metricas EXCEPT !.errores = Append(@, "Error en consulta")]
    /\ \E h \in BucleConsulta(hilos[t]) :
          /\ hilos' = [hilos EXCEPT ![t] = h]
          /\ cuenta' = Sorteado(h)
    /\ UNCHANGED <<mainvars, muestras_cpu, muestras_memoria, now>>

(* simular_votos *)

\* the submission is over: tiempo_voto = ...; the attempt is classified by
\* one more draw (rapido: random.random() < 0.02 fails; rendimiento: exito =
\* enviar_voto_simulado(...), False on 5% of the calls and on any failure);
\* metricas[k] += 1 reads metricas[k]
VotoOp(t) ==
    /\ Tipo(t) = "votos"
    /\ hilos[t].pc = "op"
    /\ Cumplido(t)
    /\ \E exito \in BOOLEAN :
          /\ hilos' = [hilos EXCEPT
                 ![t].pc = "escribir", ![t].exito = exito,
                 ![t].lat = LatenciaMs(hilos[t].ini, now),
                 ![t].tmp = IF exito THEN metricas.votos_procesados
                                     ELSE metricas.votos_fallidos]
          /\ cuenta' = IF exito
                       THEN [cuenta EXCEPT !.exitos = @ + 1, !.sorteos = @ + 1]
                       ELSE [cuenta EXCEPT !.fallos = @ + 1, !.sorteos = @ + 1]
    /\ UNCHANGED <<mainvars, metricas, muestras_cpu, muestras_memoria, now>>

\* the submission raises (rapido; enviar_voto_simulado swallows every failure)
VotoOpFalla(t) ==
    /\ Tipo(t) = "votos"
    /\ harness = "rapido"
    /\ hilos[t].pc = "op"
    /\ Cumplido(t)
    /\ PuedeFallar
    /\ cuenta' = Falla
    /\ hilos' = [hilos EXCEPT ![t].pc = "except"]
    /\ UNCHANGED <<mainvars, metricas, muestras_cpu, muestras_memoria, now>>

\* metricas[k] += 1 writes metricas[k]; a failed attempt goes on to
\* contador_votos += 1; time.sleep(intervalo_votos)
VotoEscribir(t) ==
    /\ Tipo(t) = "votos"
    /\ hilos[t].pc = "escribir"
    /\ IF hilos[t].exito
       THEN /\ metricas' = [metricas EXCEPT !.votos_procesados = hilos[t].tmp + 1]
            /\ hilos' = [hilos EXCEPT ![t].pc = "anexar", ![t].dp = @ + 1]
       ELSE /\ metricas' = [metricas EXCEPT !.votos_fallidos = hilos[t].tmp + 1]
            /\ hilos' = [hilos EXCEPT ![t].pc = "pausa", ![t].df = @ + 1,
                                      ![t].despierta = now + hilos[t].intervalo]
    /\ UNCHANGED <<mainvars, muestras_cpu, muestras_memoria, now, cuenta>>

\* mutant: the latency of the vote is inserted at the front of the list
VotoAnexarAlFrente(t) ==
    /\ Tipo(t) = "votos"
    /\ hilos[t].pc = "anexar"
    /\ metricas' = [metricas EXCEPT !.latencias = <<hilos[t].lat>> \o @]
    /\ cuenta' = [cuenta EXCEPT !.anexos = @ + 1]
    /\ hilos' = [hilos EXCEPT ![t].pc = "pausa", ![t].dl = @ + 1,
                              ![t].despierta = now + hilos[t].intervalo]
    /\ UNCHANGED <<mainvars, muestras_cpu, muestras_memoria, now>>

\* metricas['latencias'].append(tiempo_voto); contador_votos += 1;
\* time.sleep(intervalo_votos) starts
VotoAnexar(t) ==
    /\ Tipo(t) = "votos"
    /\ hilos[t].pc = "anexar"
    /\ metricas' = [metricas EXCEPT !.latencias = Append(@, hilos[t].lat)]
    /\ cuenta' = [cuenta EXCEPT !.anexos = @ + 1]
    /\ hilos' = [hilos EXCEPT ![t].pc = "pausa", ![t].dl = @ + 1,
                              ![t].despierta = now + hilos[t].intervalo]
    /\ UNCHANGED <<mainvars, muestras_cpu, muestras_memoria, now>>

\* time.sleep(intervalo_votos) returns; loop test
VotoPausa(t) ==
    /\ Tipo(t) = "votos"
    /\ hilos[t].pc = "pausa"
    /\ hilos[t].intervalo >= 0
    /\ Cumplido(t)
    /\ \E h \in BucleVoto(hilos[t]) :
          /\ hilos' = [hilos EXCEPT ![t] = h]
          /\ cuenta' = Sorteado(h)
    /\ UNCHANGED <<mainvars, metricas, muestras_cpu, muestras_memoria, now>>

\* time.sleep(intervalo_votos) raises: at once and always on a negative
\* interval (ValueError: sleep length must be non-negative)
VotoPausaFalla(t) ==
    /\ Tipo(t) = "votos"
    /\ hilos[t].pc = "pausa"
    /\ Cumplido(t)
    /\ hilos[t].intervalo < 0 \/ PuedeFallar
    /\ cuenta' = Falla
    /\ hilos' = [hilos EXCEPT ![t].pc = "except"]
    /\ UNCHANGED <<mainvars, metricas, muestras_cpu, muestras_memoria, now>>

\* except Exception as e: metricas['votos_fallidos'] += 1 reads the counter
VotoExceptLeer(t) ==
    /\ Tipo(t) = "votos"
    /\ hilos[t].pc = "except"
    /\ hilos' = [hilos EXCEPT ![t].pc = "except_escribir",
                              ![t].tmp = metricas.votos_fallidos]
    /\ cuenta' = [cuenta EXCEPT !.fallos = @ + 1]
    /\ UNCHANGED <<mainvars, metricas, muestras_cpu, muestras_memoria, now>>

\* mutant: the handler logs the failure without counting it
VotoExceptSinContar(t) ==
    /\ Tipo(t) = "votos"
    /\ hilos[t].pc = "except_escribir"
    /\ hilos' = [hilos EXCEPT ![t].pc = "except_errores"]
    /\ UNCHANGED <<mainvars, metricas, muestras_cpu, muestras_memoria, now,
                   cuenta>>

\* metricas['votos_fallidos'] += 1 writes the counter
VotoExceptEscribir(t) ==
    /\ Tipo(t) = "votos"
    /\ hilos[t].pc = "except_escribir"
    /\ metricas' = [metricas EXCEPT !.votos_fallidos = hilos[t].tmp + 1]
    /\ hilos' = [hilos EXCEPT ![t].pc = "except_errores", ![t].df = @ + 1]
    /\ UNCHANGED <<mainvars, muestras_cpu, muestras_memoria, now, cuenta>>

\* metricas['errores'].append(f"Error en voto: ..."); loop test
VotoExceptErrores(t) ==
    /\ Tipo(t) = "votos"
    /\ hilos[t].pc = "except_errores"
    /\ metricas' = [metricas EXCEPT !.errores = Append(@, "Error en voto")]
    /\ \E h \in BucleVoto(hilos[t]) :
          /\ hilos' = [hilos EXCEPT ![t] = h]
          /\ cuenta' = Sorteado(h)
    /\ UNCHANGED <<mainvars, muestras_cpu, muestras_memoria, now>>

(* monitorear_recursos *)

\* mutant: the last sample is stored in place of the mean
PromediosDeLaUltima(m, cpu, mem) ==
    [m EXCEPT !.uso_cpu_promedio = IF cpu # <<>> THEN Rat(cpu[Len(cpu)], 1) ELSE @,
              !.uso_memoria_promedio = IF mem # <<>> THEN Rat(mem[Len(mem)], 1) ELSE @]

\* if muestras_cpu: metricas['uso_cpu_promedio'] = statistics.mean(...)
\* if muestras_memoria: metricas['uso_memoria_promedio'] = ...
Promedios(m, cpu, mem) ==
    [m EXCEPT !.uso_cpu_promedio = IF cpu # <<>> THEN Media(cpu) ELSE @,
              !.uso_memoria_promedio = IF mem # <<>> THEN Media(mem) ELSE @]

\* cpu_percent and virtual_memory returned: both lists grow; time.sleep starts
MonitoreoMuestra ==
    /\ hilos[Monitoreo].pc = "op"
    /\ Cumplido(Monitoreo)
    /\ \E m \in Muestras :
          /\ muestras_cpu' = Append(muestras_cpu, m[1])
          /\ muestras_memoria' = Append(muestras_memoria, m[2])
    /\ hilos' = [hilos EXCEPT ![Monitoreo].pc = "pausa",
                              ![Monitoreo].ultima = now,
                              ![Monitoreo].despierta = now + PausaMonitoreo(harness)]
    /\ UNCHANGED <<mainvars, metricas, now, cuenta>>

\* psutil raises
MonitoreoMuestraFalla ==
    /\ hilos[Monitoreo].pc = "op"
    /\ Cumplido(Monitoreo)
    /\ PuedeFallar
    /\ cuenta' = Falla
    /\ hilos' = [hilos EXCEPT ![Monitoreo].pc = "except"]
    /\ UNCHANGED <<mainvars, metricas, muestras_cpu, muestras_memoria, now>>

\* time.sleep(2) / time.sleep(5) returns; loop test
MonitoreoPausa ==
    /\ hilos[Monitoreo].pc = "pausa"
    /\ Cumplido(Monitoreo)
    /\ hilos' = [hilos EXCEPT ![Monitoreo] = BucleMonitoreo(@)]
    /\ UNCHANGED <<mainvars, metricas, muestras_cpu, muestras_memoria, now,
                   cuenta>>

\* mutant: the handler logs the failure and starts the lists afresh
MonitoreoExceptDescarta ==
    /\ hilos[Monitoreo].pc = "except"
    /\ metricas' = [metricas EXCEPT !.errores = Append(@, "Error en monitoreo")]
    /\ hilos' = [hilos EXCEPT ![Monitoreo] = BucleMonitoreo(@)]
    /\ muestras_cpu' = <<>>
    /\ muestras_memoria' = <<>>
    /\ UNCHANGED <<mainvars, now, cuenta>>

\* except Exception as e: metricas['errores'].append(...); loop test
MonitoreoExcept ==
    /\ hilos[Monitoreo].pc = "except"
    /\ metricas' = [metricas EXCEPT !.errores = Append(@, "Error en monitoreo")]
    /\ hilos' = [hilos EXCEPT ![Monitoreo] = BucleMonitoreo(@)]
    /\ UNCHANGED <<mainvars, muestras_cpu, muestras_memoria, now, cuenta>>

\* after the loop: the two averages are stored and the thread ends
MonitoreoPromedios ==
    /\ hilos[Monitoreo].pc = "promedios"
    /\ metricas' = Promedios(metricas, muestras_cpu, muestras_memoria)
    /\ hilos' = [hilos EXCEPT ![Monitoreo].pc = "fin"]
    /\ UNCHANGED <<mainvars, muestras_cpu, muestras_memoria, now, cuenta>>

----------------------------------------------------------------------------
(* The clock *)

\* a worker that cannot take a step at this instant
HiloBloqueado(h) ==
    \/ h.pc \in {"nuevo", "fin"}
    \/ h.pc \in {"op", "pausa"} /\ h.despierta > now

\* the main thread cannot take a step at this instant
MainBloqueado ==
    \/ mainpc \in {"fin", "error"}
    \/ mainpc = "enfriar" /\ despierta > now
    \/ mainpc = "unir" /\ pendientes # <<>> /\ hilos[Head(pendientes)].pc # "fin"

\* somebody is inside a blocking call that time will end
AlguienEspera ==
    \/ mainpc = "enfriar" /\ despierta > now
    \/ \E t \in Hilos : hilos[t].pc \in {"op", "pausa"} /\ hilos[t].despierta > now

Tick ==
    /\ MainBloqueado
    /\ \A t \in Hilos : HiloBloqueado(hilos[t])
    /\ AlguienEspera
    /\ now' = now + 1
    /\ UNCHANGED <<mainvars, metricas, hilos, muestras_cpu, muestras_memoria,
                   cuenta>>

----------------------------------------------------------------------------
Next ==
    \/ IniciarExperimento
    \/ TerminarSuite
    \/ LanzarMonitoreo
    \/ LanzarConsulta
    \/ LanzarVotos
    \/ Unir
    \/ CalcularLatencias
    \/ CalcularDerivadas
    \/ RegistrarResultado
    \/ FinEnfriamiento
    \/ \E t \in Hilos : HiloArranca(t)
    \/ \E t \in Hilos : ConsultaOp(t)
    \/ \E t \in Hilos : ConsultaOpCaida(t)
    \/ \E t \in Hilos : ConsultaOpFalla(t)
    \/ \E t \in Hilos : ConsultaPausa(t)
    \/ \E t \in Hilos : ConsultaExcept(t)
    \/ \E t \in Hilos : VotoOp(t)
    \/ \E t \in Hilos : VotoOpFalla(t)
    \/ \E t \in Hilos : VotoEscribir(t)
    \/ \E t \in Hilos : VotoAnexar(t)
    \/ \E t \in Hilos : VotoPausa(t)
    \/ \E t \in Hilos : VotoPausaFalla(t)
    \/ \E t \in Hilos : VotoExceptLeer(t)
    \/ \E t \in Hilos : VotoExceptEscribir(t)
    \/ \E t \in Hilos : VotoExceptErrores(t)
    \/ MonitoreoMuestra
    \/ MonitoreoMuestraFalla
    \/ MonitoreoPausa
    \/ MonitoreoExcept
    \/ MonitoreoPromedios
    \/ Tick

Spec == Init /\ [][Next]_vars

----------------------------------------------------------------------------
(* A whole suite: iniciar_experimentos over a list of several              *)
(* configurations.  In the suite no operation of a worker raises; Spec     *)
(* covers the failing operations within one run.                           *)

\* longest list of configurations handed to iniciar_experimentos
MaxConfiguraciones == 2

\* the configurations of a suite: one query thread, one or two votes per
\* minute, one minute
ConfiguracionesSuite ==
    {c \in Configuraciones :
        /\ c.consultas_concurrentes = 1
        /\ c.votos_por_minuto > 0
        /\ c.duracion_minutos = 1}

\* the list a, b, a, ... of n configurations
Alternada(n, a, b) == [k \in 1..n |-> IF k % 2 = 1 THEN a ELSE b]

\* self.configuraciones: up to MaxConfiguraciones entries, neighbours differ
SuitesPosibles ==
    {Alternada(n, p[1], p[2]) :
        n \in 0..MaxConfiguraciones,
        p \in {q \in ConfiguracionesSuite \X ConfiguracionesSuite : q[1] # q[2]}}

InitSuite ==
    /\ harness \in Harnesses
    /\ configuraciones \in SuitesPosibles
    /\ resultados = <<>>
    /\ i = 1
    /\ mainpc = "suite"
    /\ excepcion = "ninguna"
    /\ inicio = 0
    /\ metricas = MetricasNuevas(SinConfiguracion, 0)
    /\ hilos = [t \in Hilos |-> HiloNuevo]
    /\ pendientes = <<>>
    /\ despierta = 0
    /\ muestras_cpu = <<>>
    /\ muestras_memoria = <<>>
    /\ now = 0
    /\ cuenta = CuentaNueva

NextSuite ==
    \/ IniciarExperimento
    \/ TerminarSuite
    \/ LanzarMonitoreo
    \/ LanzarConsulta
    \/ LanzarVotos
    \/ Unir
    \/ CalcularLatencias
    \/ CalcularDerivadas
    \/ RegistrarResultado
    \/ FinEnfriamiento
    \/ \E t \in Hilos : HiloArranca(t)
    \/ \E t \in Hilos : ConsultaOp(t)
    \/ \E t \in Hilos : ConsultaPausa(t)
    \/ \E t \in Hilos : VotoOp(t)
    \/ \E t \in Hilos : VotoEscribir(t)
    \/ \E t \in Hilos : VotoAnexar(t)
    \/ \E t \in Hilos : VotoPausa(t)
    \/ MonitoreoMuestra
    \/ MonitoreoPausa
    \/ MonitoreoPromedios
    \/ Tick

SpecSuite == InitSuite /\ [][NextSuite]_vars

----------------------------------------------------------------------------
(* The end-to-end scenario: one call of ejecutar_experimento(5, 50, 1) of  *)
(* the fast harness with every simulated operation lasting a fixed 30 ms,  *)
(* no vote failing and psutil reporting 20 % and 100 MB.  One tick is      *)
(* 10 ms here, so every duration of the code is a whole number of ticks.   *)

\* the simulated operation lasts 30 ms (scenario) / one tick
LatenciaFija == IF Fino THEN 3 ELSE 1

\* what psutil reports in the scenario
MuestraFija == <<20, 100>>

\* the stubbed operation: what the loop head may choose is cut down to the
\* fixed latency
LatenciaDelStub(h) == h.pc = "op" => h.despierta = now + LatenciaFija

\* the state after metricas = {...} in ejecutar_experimento
InitEscenario ==
    /\ harness = "rapido"
    /\ configuraciones = <<ConfigEscenario>>
    /\ resultados = <<>>
    /\ i = 1
    /\ mainpc = "lanzar_monitoreo"
    /\ excepcion = "ninguna"
    /\ inicio = 0
    /\ metricas = MetricasNuevas(ConfigEscenario, 0)
    /\ hilos = [t \in Hilos |-> HiloNuevo]
    /\ pendientes = <<>>
    /\ despierta = 0
    /\ muestras_cpu = <<>>
    /\ muestras_memoria = <<>>
    /\ now = 0
    /\ cuenta = CuentaNueva

\* psutil.cpu_percent(interval=1) is not one of the stubbed operations
HiloArrancaStub(t) ==
    HiloArranca(t) /\ (Tipo(t) # "monitoreo" => LatenciaDelStub(hilos'[t]))

ConsultaPausaStub(t) == ConsultaPausa(t) /\ LatenciaDelStub(hilos'[t])

\* random.random() < 0.02 is never true: no vote fails
VotoOpEscenario(t) == VotoOp(t) /\ hilos'[t].exito

VotoPausaEscenario(t) == VotoPausa(t) /\ LatenciaDelStub(hilos'[t])

MonitoreoMuestraEscenario ==
    /\ MonitoreoMuestra
    /\ muestras_cpu' = Append(muestras_cpu, MuestraFija[1])
    /\ muestras_memoria' = Append(muestras_memoria, MuestraFija[2])

NextEscenario ==
    \/ LanzarMonitoreo
    \/ LanzarConsulta
    \/ LanzarVotos
    \/ \E t \in Hilos : HiloArrancaStub(t)
    \/ \E t \in Hilos : ConsultaOp(t)
    \/ \E t \in Hilos : ConsultaPausaStub(t)
    \/ \E t \in Hilos : VotoOpEscenario(t)
    \/ \E t \in Hilos : VotoEscribir(t)
    \/ \E t \in Hilos : VotoAnexar(t)
    \/ \E t \in Hilos : VotoPausaEscenario(t)
    \/ MonitoreoMuestraEscenario
    \/ MonitoreoPausa
    \/ MonitoreoPromedios
    \/ Unir
    \/ CalcularLatencias
    \/ CalcularDerivadas
    \/ Tick

SpecEscenario == InitEscenario /\ [][NextEscenario]_vars

----------------------------------------------------------------------------
(* The reduction of the latencies of whole runs of the fast harness.  The  *)
(* short runs, on the coarse clock, take every latency the bounds allow    *)
(* and leave a few latencies in the record.  The long run,                 *)
(* ejecutar_experimento(2, 4, 1) timed in ticks of 10 ms, leaves several   *)
(* hundred: there random.uniform is replaced by a function of the clock    *)
(* with values in the range of the code, and no vote fails.  psutil        *)
(* reports 20 % and 100 MB in every run.                                   *)

\* the short runs: one or two query threads, one or two votes per minute,
\* one or three minutes
ConfiguracionesCortas ==
    [consultas_concurrentes : {1, 2}, votos_por_minuto : {1, 2},
     duracion_minutos : {1, 3}]

\* the long run: random.uniform(0.01, 0.05) gives 10 to 50 ms and
\* random.uniform(0.02, 0.08) gives 20 to 80 ms, by the clock reading at the
\* draw
LatenciaDelReloj(tipo) ==
    IF tipo = "consulta" THEN 1 + (now % 5) ELSE 2 + (now % 7)

\* in the long run, what the loop head may choose is cut down to the
\* latency given by the clock
LatenciaEstad(t, h) ==
    (Fino /\ h.pc = "op") => h.despierta = now + LatenciaDelReloj(Tipo(t))

\* the state after metricas = {...} in ejecutar_experimento
InitEstad ==
    /\ harness = "rapido"
    /\ configuraciones \in {<<c>> : c \in ConfiguracionesCortas \cup {ConfigEstad}}
    /\ resultados = <<>>
    /\ i = 1
    /\ mainpc = "lanzar_monitoreo"
    /\ excepcion = "ninguna"
    /\ inicio = 0
    /\ metricas = MetricasNuevas(configuraciones[1], 0)
    /\ hilos = [t \in Hilos |-> HiloNuevo]
    /\ pendientes = <<>>
    /\ despierta = 0
    /\ muestras_cpu = <<>>
    /\ muestras_memoria = <<>>
    /\ now = 0
    /\ cuenta = CuentaNueva

HiloArrancaEstad(t) ==
    HiloArranca(t) /\ (Tipo(t) # "monitoreo" => LatenciaEstad(t, hilos'[t]))

ConsultaPausaEstad(t) == ConsultaPausa(t) /\ LatenciaEstad(t, hilos'[t])

\* in the long run random.random() < 0.02 is never true
VotoOpEstad(t) == VotoOp(t) /\ (Fino => hilos'[t].exito)

VotoPausaEstad(t) == VotoPausa(t) /\ LatenciaEstad(t, hilos'[t])

NextEstad ==
    \/ LanzarMonitoreo
    \/ LanzarConsulta
    \/ LanzarVotos
    \/ \E t \in Hilos : HiloArrancaEstad(t)
    \/ \E t \in Hilos : ConsultaOp(t)
    \/ \E t \in Hilos : ConsultaPausaEstad(t)
    \/ \E t \in Hilos : VotoOpEstad(t)
    \/ \E t \in Hilos : VotoEscribir(t)
    \/ \E t \in Hilos : VotoAnexar(t)
    \/ \E t \in Hilos : VotoPausaEstad(t)
    \/ MonitoreoMuestraEscenario
    \/ MonitoreoPausa
    \/ MonitoreoPromedios
    \/ Unir
    \/ CalcularLatencias
    \/ CalcularDerivadas
    \/ Tick

SpecEstad == InitEstad /\ [][NextEstad]_vars

----------------------------------------------------------------------------
(* The determinism test: the fast harness runs the same configuration      *)
(* twice.  The generator is seeded with the same seed at the start of each *)
(* run, so the k-th draw of a run is the same number in both runs; the     *)
(* clock and the sleeps are those of the model, the simulated operation    *)
(* lasts a fixed tick whatever number time.sleep is given, and no          *)
(* operation raises.                                                       *)

\* the draws of the seed, as random.random() in hundredths
Semilla == <<37, 74, 11, 48, 85, 22, 1, 96, 33, 70>>

\* the k-th draw taken after seeding
Sorteo(k) == Semilla[((k - 1) % Len(Semilla)) + 1]

\* if random.random() < 0.02, in hundredths
UmbralFallo == 2

\* one query thread, one vote per minute, three minutes
ConfigSemilla ==
    [consultas_concurrentes |-> 1, votos_por_minuto |-> 1, duracion_minutos |-> 3]

InitSemilla ==
    /\ harness = "rapido"
    /\ configuraciones = <<ConfigSemilla, ConfigSemilla>>
    /\ resultados = <<>>
    /\ i = 1
    /\ mainpc = "suite"
    /\ excepcion = "ninguna"
    /\ inicio = 0
    /\ metricas = MetricasNuevas(SinConfiguracion, 0)
    /\ hilos = [t \in Hilos |-> HiloNuevo]
    /\ pendientes = <<>>
    /\ despierta = 0
    /\ muestras_cpu = <<>>
    /\ muestras_memoria = <<>>
    /\ now = 0
    /\ cuenta = CuentaNueva

\* the attempt fails exactly when the draw it takes is below the threshold
VotoOpSemilla(t) ==
    VotoOp(t) /\ (hilos'[t].exito <=> Sorteo(cuenta'.sorteos) >= UmbralFallo)

NextSemilla ==
    \/ IniciarExperimento
    \/ TerminarSuite
    \/ LanzarMonitoreo
    \/ LanzarConsulta
    \/ LanzarVotos
    \/ Unir
    \/ CalcularLatencias
    \/ CalcularDerivadas
    \/ RegistrarResultado
    \/ FinEnfriamiento
    \/ \E t \in Hilos : HiloArrancaStub(t)
    \/ \E t \in Hilos : ConsultaOp(t)
    \/ \E t \in Hilos : ConsultaPausaStub(t)
    \/ \E t \in Hilos : VotoOpSemilla(t)
    \/ \E t \in Hilos : VotoEscribir(t)
    \/ \E t \in Hilos : VotoAnexar(t)
    \/ \E t \in Hilos : VotoPausaEscenario(t)
    \/ MonitoreoMuestra
    \/ MonitoreoPausa
    \/ MonitoreoPromedios
    \/ Tick

SpecSemilla == InitSemilla /\ [][NextSemilla]_vars

----------------------------------------------------------------------------
(* The sampler in its run: one call of ejecutar_experimento over three      *)
(* minutes, long enough for samples before and after a failure of psutil,   *)
(* or over one minute, short enough for every sampling of the run to fail.  *)
(* The query thread and the vote thread run beside the sampler; here only   *)
(* the sampling raises, Spec covers the failures of the other workers.      *)

\* one query thread, one vote per minute, three minutes
ConfigMonitoreo ==
    [consultas_concurrentes |-> 1, votos_por_minuto |-> 1, duracion_minutos |-> 3]

\* one query thread, one vote per minute, one minute
ConfigMonitoreoCorto ==
    [consultas_concurrentes |-> 1, votos_por_minuto |-> 1, duracion_minutos |-> 1]

\* the state after metricas = {...} in ejecutar_experimento
InitMonitoreo ==
    /\ harness \in Harnesses
    /\ configuraciones \in {<<ConfigMonitoreo>>, <<ConfigMonitoreoCorto>>}
    /\ resultados = <<>>
    /\ i = 1
    /\ mainpc = "lanzar_monitoreo"
    /\ excepcion = "ninguna"
    /\ inicio = 0
    /\ metricas = MetricasNuevas(configuraciones[1], 0)
    /\ hilos = [t \in Hilos |-> HiloNuevo]
    /\ pendientes = <<>>
    /\ despierta = 0
    /\ muestras_cpu = <<>>
    /\ muestras_memoria = <<>>
    /\ now = 0
    /\ cuenta = CuentaNueva

NextMonitoreo ==
    \/ LanzarMonitoreo
    \/ LanzarConsulta
    \/ LanzarVotos
    \/ \E t \in Hilos : HiloArranca(t)
    \/ \E t \in Hilos : ConsultaOp(t)
    \/ \E t \in Hilos : ConsultaPausa(t)
    \/ \E t \in Hilos : VotoOp(t)
    \/ \E t \in Hilos : VotoEscribir(t)
    \/ \E t \in Hilos : VotoAnexar(t)
    \/ \E t \in Hilos : VotoPausa(t)
    \/ MonitoreoMuestra
    \/ MonitoreoMuestraFalla
    \/ MonitoreoPausa
    \/ MonitoreoExcept
    \/ MonitoreoPromedios
    \/ Unir
    \/ CalcularLatencias
    \/ CalcularDerivadas
    \/ Tick

SpecMonitoreo == InitMonitoreo /\ [][NextMonitoreo]_vars

----------------------------------------------------------------------------
(* Properties *)

\* a configuration whose three fields are positive
Valida(c) ==
    /\ c.consultas_concurrentes > 0
    /\ c.votos_por_minuto > 0
    /\ c.duracion_minutos > 0

\* the records ejecutar_experimento has returned
Devueltos ==
    {resultados[k] : k \in 1..Len(resultados)}
        \cup (IF mainpc = "devuelto" THEN {metricas} ELSE {})

\* the main thread is past the joins of the current run
TrasLaBarrera ==
    \/ mainpc = "unir" /\ pendientes = <<>>
    \/ mainpc \in {"derivar", "devuelto", "enfriar"}

\* C1: the final metrics of a run are computed only after the sampler
\* thread, every query thread and the vote thread of that run have
\* terminated: while the main thread is past the joins, or any derived key
\* is in the record, no worker of the run is alive.
C1_FinalizaTrasUnir ==
    (TrasLaBarrera \/ metricas.claves # {}) =>
        \A t \in Hilos : ~Vivo(hilos[t])

\* a run with two query threads, whose workers wrote, is being finalized
C1_Testigo ==
    /\ mainpc = "derivar"
    /\ Cardinality(Terminados) = 4
    /\ Len(metricas.latencias) >= 2
    /\ metricas.votos_procesados + metricas.votos_fallidos >= 1

\* C2: no update of the shared record is lost: past the barrier,
\* len(latencias) is the number of appends the workers performed,
\* votos_procesados the number of increments of it they began, and
\* votos_fallidos the number of increments of it they began.
C2_SinActualizacionesPerdidas ==
    TrasLaBarrera =>
        /\ Len(metricas.latencias) = cuenta.anexos
        /\ metricas.votos_procesados = cuenta.exitos
        /\ metricas.votos_fallidos = cuenta.fallos

\* two query threads and the vote thread all wrote to the record
C2_Testigo ==
    /\ TrasLaBarrera
    /\ Cardinality(Terminados) = 4
    /\ cuenta.anexos >= 3
    /\ cuenta.exitos >= 1
    /\ cuenta.fallos >= 1

\* C3: a configuration with a non-positive field is rejected before any
\* worker is started: no worker of a run with such a configuration is ever
\* started.
C3_InvalidaSinHilos ==
    (mainpc # "suite" /\ ~Valida(Config)) => Iniciados = {}

\* C4: for a valid configuration ejecutar_experimento never raises.
C4_ValidaNuncaLanza ==
    Valida(Config) => mainpc # "error"

\* C5: every vote attempt adds one to exactly one of votos_procesados and
\* votos_fallidos, and appends its latency exactly when it added to
\* votos_procesados; stated where the attempt has done its updates (in the
\* pacing sleep, after the handler's increment, and at the end of the thread).
C5_UnContadorPorIntento ==
    \A t \in HilosVotos :
        (\/ hilos[t].pc \in {"pausa", "except_errores"}
         \/ hilos[t].pc = "fin" /\ hilos[t].intentos > 0) =>
            /\ hilos[t].dp + hilos[t].df = 1
            /\ hilos[t].dl = hilos[t].dp

\* C6: a returned record of a configuration with duracion_minutos > 0 and
\* votos_por_minuto > 0 has votos_procesados + votos_fallidos > 0.
C6_AlMenosUnIntento ==
    \A r \in Devueltos :
        (r.configuracion.duracion_minutos > 0
            /\ r.configuracion.votos_por_minuto > 0) =>
                r.votos_procesados + r.votos_fallidos > 0

\* a record of such a configuration was returned
C6_Testigo ==
    \E r \in Devueltos :
        /\ r.configuracion.duracion_minutos > 0
        /\ r.configuracion.votos_por_minuto > 0

\* C7: in every returned record tasa_error is set, lies in [0, 100], is
\* votos_fallidos / (votos_procesados + votos_fallidos) * 100 when that
\* denominator is not 0, and is 0 when it is.
C7_TasaError ==
    \A r \in Devueltos :
        LET total == r.votos_procesados + r.votos_fallidos
            e == r.tasa_error
        IN /\ "tasa_error" \in r.claves
           /\ e.den > 0
           /\ 0 <= e.num
           /\ e.num <= 100 * e.den
           /\ total > 0 => e.num * total = r.votos_fallidos * 100 * e.den
           /\ total = 0 => e.num = 0

\* a record with processed and with failed votes was returned
C7_Testigo ==
    /\ \E r \in Devueltos : r.votos_procesados > 0 /\ r.votos_fallidos > 0
                            /\ r.tasa_error.num > 0

\* C8: throughput is computed without raising, also when duracion_real is
\* 0: no run ends in the ZeroDivisionError of the throughput division.
C8_ThroughputGuardado ==
    ~(/\ mainpc = "error"
      /\ excepcion = "ZeroDivisionError"
      /\ "duracion_real" \in metricas.claves
      /\ metricas.duracion_real = 0)

\* C9: every returned record has latencia_promedio, latencia_p95 and
\* latencia_max; all three are 0 when latencias is empty, otherwise
\* latencia_promedio is the mean and latencia_max the maximum of latencias.
C9_LatenciasDefinidas ==
    \A r \in Devueltos :
        /\ ClavesLatencia \subseteq r.claves
        /\ r.latencias = <<>> =>
              /\ r.latencia_promedio.num = 0
              /\ r.latencia_p95.num = 0
              /\ r.latencia_max.num = 0
        /\ r.latencias # <<>> =>
              /\ r.latencia_promedio.num * Len(r.latencias)
                    = Suma(r.latencias) * r.latencia_promedio.den
              /\ r.latencia_max.den = 1
              /\ \E k \in 1..Len(r.latencias) :
                    r.latencias[k] = r.latencia_max.num
              /\ \A k \in 1..Len(r.latencias) :
                    r.latencias[k] <= r.latencia_max.num

\* how many entries of s satisfy x < v / x <= v
Menores(s, v) == Cardinality({k \in 1..Len(s) : s[k] < v})
MenoresOIguales(s, v) == Cardinality({k \in 1..Len(s) : s[k] <= v})

\* C10: in the fast harness, for a non-empty latencias of length n,
\* latencia_p95 is the element at 0-based index floor(0.95 * n) of latencias
\* in ascending order; that index is within 0 .. n - 1; for n < 20 it is the
\* maximum.
C10_P95PorIndice ==
    (/\ harness = "rapido"
     /\ mainpc = "derivar"
     /\ metricas.latencias # <<>>) =>
        LET l == metricas.latencias
            n == Len(l)
            v == metricas.latencia_p95
        IN /\ "latencia_p95" \in metricas.claves
           /\ v.den = 1
           /\ \E idx \in 0..(n - 1) :
                 /\ 100 * idx <= 95 * n
                 /\ 95 * n < 100 * (idx + 1)
                 /\ Menores(l, v.num) <= idx
                 /\ MenoresOIguales(l, v.num) >= idx + 1
           /\ n < 20 => \A k \in 1..n : l[k] <= v.num

\* more than 20 latencies, and the 95th percentile is not their maximum
C10_Testigo ==
    /\ harness = "rapido"
    /\ mainpc = "derivar"
    /\ Len(metricas.latencias) > 20
    /\ \E k \in 1..Len(metricas.latencias) :
          metricas.latencias[k] > metricas.latencia_p95.num

\* the main thread is inside ejecutar_experimento, in a call that has not
\* returned its record
EnCorrida == mainpc \in {"lanzar_monitoreo", "lanzar_consultas", "unir", "derivar"}

\* C11: iniciar_experimentos processes the configurations in list order and
\* appends exactly one record per configuration: once the suite has
\* finished, len(resultados) is the number of configurations and
\* resultados[k].configuracion is the k-th configuration for every k; the
\* records returned so far are always those of the first configurations.
C11_UnRegistroPorConfiguracion ==
    /\ Len(resultados) <= Len(configuraciones)
    /\ \A k \in 1..Len(resultados) :
          resultados[k].configuracion = configuraciones[k]
    /\ mainpc = "fin" => Len(resultados) = Len(configuraciones)

\* a suite of two different configurations has finished
C11_Testigo ==
    /\ mainpc = "fin"
    /\ Len(resultados) = 2
    /\ resultados[1].configuracion # resultados[2].configuracion

\* the instant run k was completed: its start plus its duracion_real
FinDeCorrida(r) == r.timestamp + r.duracion_real

\* the cooldown of the harness in ticks (10 s / 30 s)
PausaRequerida == IF harness = "rapido" THEN 1 ELSE 2

RECURSIVE SumaDuraciones(_)
SumaDuraciones(rs) ==
    IF rs = <<>> THEN 0 ELSE Head(rs).duracion_real + SumaDuraciones(Tail(rs))

\* C12: between two consecutive runs the full cooldown elapses: a run never
\* starts before the completion of the run before it plus the cooldown, and
\* when the suite of k configurations has finished the time elapsed is at
\* least the sum of the run durations plus k - 1 cooldowns.
C12_EnfriamientoEntreCorridas ==
    /\ \A k \in 1..(Len(resultados) - 1) :
          resultados[k + 1].timestamp
              >= FinDeCorrida(resultados[k]) + PausaRequerida
    /\ (EnCorrida /\ resultados # <<>>) =>
          inicio >= FinDeCorrida(resultados[Len(resultados)]) + PausaRequerida
    /\ (mainpc = "fin" /\ resultados # <<>>) =>
          now >= SumaDuraciones(resultados)
                    + (Len(resultados) - 1) * PausaRequerida

\* the second run of a suite has started
C12_Testigo ==
    /\ EnCorrida
    /\ i = 2
    /\ Len(resultados) = 1
    /\ inicio > FinDeCorrida(resultados[1])

\* C13: the suite pauses for the cooldown after every run but the final
\* one: the main thread is in the cooldown sleep only while a configuration
\* is still to be run.
C13_SinPausaFinal ==
    mainpc = "enfriar" => i < Len(configuraciones)

\* C14: configurations are processed strictly sequentially.  The workers in
\* hilos are those of the run in progress; whenever the main thread is
\* outside ejecutar_experimento (about to start the next run, in the
\* cooldown, or done) no worker is alive, so no worker of one run is alive
\* together with a worker of another.
C14_CorridasSecuenciales ==
    mainpc \in {"suite", "devuelto", "enfriar", "fin"} =>
        \A t \in Hilos : ~Vivo(hilos[t])

\* the workers of the second run are alive
C14_Testigo ==
    /\ i = 2
    /\ Len(resultados) = 1
    /\ mainpc = "unir"
    /\ Cardinality({t \in Hilos : Vivo(hilos[t])}) = 3

\* the entries of a list
Rango(s) == {s[k] : k \in 1..Len(s)}

\* C15: a run starts exactly one sampler thread, exactly
\* consultas_concurrentes query threads and exactly one vote thread, each
\* given duracion_minutos * 60 as its duration, and every thread it started
\* is among the threads it joins: once the threads are started, every live
\* thread is in the list still to be joined.
C15_HilosDeLaCorrida ==
    (mainpc \in {"unir", "derivar"}) =>
        /\ Monitoreo \in Iniciados
        /\ Cardinality({t \in Iniciados : Tipo(t) = "consulta"})
              = Config.consultas_concurrentes
        /\ Cardinality({t \in Iniciados : Tipo(t) = "votos"}) = 1
        /\ \A t \in Iniciados :
              hilos[t].dur = Config.duracion_minutos * TicksPorMinuto
        /\ {t \in Hilos : Vivo(hilos[t])} \subseteq Rango(pendientes)

\* a run with two query threads has just started its four threads
C15_Testigo ==
    /\ mainpc = "unir"
    /\ Config.consultas_concurrentes = 2
    /\ Config.duracion_minutos = 1
    /\ Len(pendientes) = 4
    /\ Cardinality({t \in Hilos : Vivo(hilos[t])}) = 4

\* C16: every worker eventually terminates, every run eventually returns
\* and the suite eventually completes all configurations.  Stated for the
\* configurations whose fields are positive, as what it rules out: the
\* program coming to a stop anywhere but at the end of the suite.
C16_TerminaLaSuite ==
    (Valida(Config) /\ ~ENABLED Next) => mainpc = "fin"

\* two floats with the same value
MismoValor(a, b) == a.num * b.den = b.num * a.den

\* C17: in the end-to-end scenario (5 query threads, 50 votes per minute,
\* 1 minute, every operation lasting 30 ms, no failure) the returned record
\* has votos_procesados within 48 .. 52 and votos_fallidos = 0.
C17_VotosDelEscenario ==
    \A r \in Devueltos :
        r.configuracion = ConfigEscenario =>
            /\ r.votos_procesados \in 48..52
            /\ r.votos_fallidos = 0

\* the record of the scenario was returned, with its 49 votes
C17_Testigo ==
    \E r \in Devueltos :
        /\ r.configuracion = ConfigEscenario
        /\ r.votos_procesados = 49
        /\ Len(r.latencias) = 49 + 5 * 462
        /\ r.duracion_real = 6027
        /\ MismoValor(r.throughput, Rat(49 * 6000, 6027))
        /\ MismoValor(r.latencia_p95, Rat(30, 1))
        /\ MismoValor(r.uso_cpu_promedio, Rat(20, 1))

\* the derived statistics of two records agree
MismasEstadisticas(r, q) ==
    /\ r.votos_procesados = q.votos_procesados
    /\ r.votos_fallidos = q.votos_fallidos
    /\ MismoValor(r.latencia_promedio, q.latencia_promedio)
    /\ MismoValor(r.latencia_p95, q.latencia_p95)
    /\ MismoValor(r.latencia_max, q.latencia_max)
    /\ MismoValor(r.throughput, q.throughput)
    /\ MismoValor(r.tasa_error, q.tasa_error)

\* C18: with a fixed seed, a deterministic clock and an operation of fixed
\* latency, two runs of the same configuration produce the same derived
\* statistics, however the threads are interleaved and whichever thread
\* takes which draw of the shared generator.
C18_CorridasIdenticas ==
    Len(resultados) = 2 => MismasEstadisticas(resultados[1], resultados[2])

\* C19: every run creates a fresh record (latencias and errores empty,
\* counters 0, no derived key) for its own configuration, and a record holds
\* only what the workers of its own run wrote: while a run is in progress
\* its latencias are the appends of this run's workers, and its counters and
\* errores do not exceed what this run's workers did.
C19_RegistroFresco ==
    /\ mainpc = "lanzar_monitoreo" =>
          /\ metricas.configuracion = configuraciones[i]
          /\ metricas.latencias = <<>>
          /\ metricas.errores = <<>>
          /\ metricas.votos_procesados = 0
          /\ metricas.votos_fallidos = 0
          /\ metricas.claves = {}
    /\ EnCorrida =>
          /\ Len(metricas.latencias) = cuenta.anexos
          /\ metricas.votos_procesados <= cuenta.exitos
          /\ metricas.votos_fallidos <= cuenta.fallos
          /\ Len(metricas.errores) <= cuenta.fallas

\* the workers of the second run have written to its record, after those of
\* the first run wrote to theirs
C19_Testigo ==
    /\ i = 2
    /\ EnCorrida
    /\ Len(resultados) = 1
    /\ Len(resultados[1].latencias) >= 2
    /\ Len(metricas.latencias) >= 1
    /\ metricas.votos_procesados + metricas.votos_fallidos >= 1

\* C20: every derived field of the record is undefined or zero while a
\* worker of the run has not terminated; in particular uso_cpu_promedio and
\* uso_memoria_promedio are not set while a query or vote worker is running.
\* Stated for the runs of configurations whose fields are positive.
C20_DerivadosTrasLosHilos ==
    (Valida(Config) /\ \E t \in Hilos : Vivo(hilos[t])) =>
        /\ metricas.claves = {}
        /\ metricas.uso_cpu_promedio.num = 0
        /\ metricas.uso_memoria_promedio.num = 0

\* the dict the suite appended last is still the one the name metricas of
\* the call that returned it was bound to: resultados holds the dict itself,
\* not a copy
RegistroDevueltoVigente ==
    /\ mainpc \in {"enfriar", "suite", "fin"}
    /\ resultados # <<>>

\* C21: a record is finalized once and never changed afterwards: a step
\* appends at most one record to resultados and leaves every earlier entry
\* in its place with all its fields, and after the suite has appended a
\* record nothing writes to that dict any more (the only step that changes
\* metricas then is the next call of ejecutar_experimento, which binds the
\* name to a new dict).
C21_RegistroInmutable ==
    [][/\ Len(resultados') \in {Len(resultados), Len(resultados) + 1}
       /\ \A k \in 1..Len(resultados) : resultados'[k] = resultados[k]
       /\ (RegistroDevueltoVigente /\ metricas' # metricas) =>
             /\ mainpc' = "lanzar_monitoreo"
             /\ metricas'.claves = {}
       /\ \A k \in 1..Len(resultados') :
             ClavesLatencia \cup ClavesDerivadas \subseteq resultados'[k].claves
             \/ (harness = "rendimiento" /\ resultados'[k].latencias = <<>>
                   /\ ClavesDerivadas \subseteq resultados'[k].claves)]_vars

\* the second run of a suite has returned its record, different from the
\* first, after its own workers wrote to it
C21_Testigo ==
    /\ mainpc = "enfriar"
    /\ i = 2
    /\ Len(resultados) = 2
    /\ resultados[1] # resultados[2]
    /\ Len(resultados[2].latencias) >= 2
    /\ now >= despierta

\* how many entries of s are x
Cuantos(s, x) == Cardinality({k \in 1..Len(s) : s[k] = x})

\* the query threads whose handler has caught a failure and not yet logged it
ConsultasEnManejador == {t \in HilosConsulta : hilos[t].pc = "except"}

\* C22: every failure of a query operation, a failed or timed-out HTTP call
\* inside consultar_endpoint included, is caught and appends one entry to
\* errores (the entries "Error en consulta" are as many as the query
\* operations that failed, less those whose handler is about to append), and
\* the query worker goes on to its deadline (a query thread terminates only
\* at or after its deadline).
C22_FallaDeConsultaRegistrada ==
    EnCorrida =>
        /\ Cuantos(metricas.errores, "Error en consulta")
              + Cardinality(ConsultasEnManejador) = cuenta.fallas_consulta
        /\ \A t \in HilosConsulta : hilos[t].pc = "fin" => now >= hilos[t].fin

\* the thread takes a step
Actua(t) == hilos'[t] # hilos[t]

\* C23: the handler of a failure raised during a vote attempt adds exactly 1
\* to votos_fallidos, appends exactly one entry to errores, changes neither
\* votos_procesados nor latencias, and hands the vote worker back to its
\* loop test: the worker starts the next attempt if its deadline has not
\* passed and terminates only if it has.
C23_ManejadorDeVoto ==
    [][\A t \in HilosVotos :
          /\ (hilos[t].pc = "except" /\ Actua(t)) =>
                /\ metricas' = metricas
                /\ hilos'[t].pc = "except_escribir"
          /\ (hilos[t].pc = "except_escribir" /\ Actua(t)) =>
                /\ metricas' = [metricas EXCEPT !.votos_fallidos = @ + 1]
                /\ hilos'[t].pc = "except_errores"
          /\ (hilos[t].pc = "except_errores" /\ Actua(t)) =>
                /\ metricas' = [metricas EXCEPT
                       !.errores = Append(@, "Error en voto")]
                /\ hilos'[t].pc = IF now < hilos[t].fin THEN "op" ELSE "fin"]_vars

\* a failure was raised in a vote attempt and handled, and the vote thread
\* has started its next attempt
C23_Testigo ==
    \E t \in HilosVotos :
        /\ hilos[t].pc = "op"
        /\ hilos[t].intentos >= 2
        /\ metricas.votos_fallidos = 1
        /\ Cuantos(metricas.errores, "Error en voto") = 1

\* s is the beginning of s2
Prefijo(s, s2) == Len(s) <= Len(s2) /\ SubSeq(s2, 1, Len(s)) = s

\* C24: a failure of the resource sampling is not fatal: its handler
\* appends one entry to errores, no sample collected before is discarded
\* (the two lists only grow while the sampler runs), the sampler goes back
\* to its loop test and samples again if its deadline has not passed, and
\* the averages it stores at the end are the means of all the samples of
\* the run, those before and those after the failure.
C24_FallaDeMuestreoNoFatal ==
    [][/\ (hilos[Monitoreo].pc = "except" /\ Actua(Monitoreo)) =>
             /\ metricas' = [metricas EXCEPT
                    !.errores = Append(@, "Error en monitoreo")]
             /\ hilos'[Monitoreo].pc =
                    IF now < hilos[Monitoreo].fin THEN "op" ELSE "promedios"
       /\ Vivo(hilos[Monitoreo]) =>
             /\ Prefijo(muestras_cpu, muestras_cpu')
             /\ Prefijo(muestras_memoria, muestras_memoria')
       /\ (hilos[Monitoreo].pc = "promedios" /\ Actua(Monitoreo)
             /\ muestras_cpu # <<>>) =>
             /\ MismoValor(metricas'.uso_cpu_promedio,
                           Rat(Suma(muestras_cpu), Len(muestras_cpu)))
             /\ MismoValor(metricas'.uso_memoria_promedio,
                           Rat(Suma(muestras_memoria), Len(muestras_memoria)))]_vars

\* the sampler has finished a run in which a sample was collected, then the
\* sampling failed, then two more samples were collected; the averages are
\* those of the three samples
C24_Testigo ==
    /\ hilos[Monitoreo].pc = "fin"
    /\ Cuantos(metricas.errores, "Error en monitoreo") = 1
    /\ Len(muestras_cpu) = 3
    /\ muestras_cpu[1] # muestras_cpu[2]
    /\ MismoValor(metricas.uso_cpu_promedio, Rat(Suma(muestras_cpu), 3))

\* C25: when the sampler has completed, uso_cpu_promedio and
\* uso_memoria_promedio are the arithmetic means of the CPU and of the
\* memory samples of the run, and both are 0 when no sample was collected;
\* the two lists of samples always have the same length.
C25_PromediosDeLasMuestras ==
    /\ Len(muestras_cpu) = Len(muestras_memoria)
    /\ hilos[Monitoreo].pc = "fin" =>
          IF muestras_cpu = <<>>
          THEN /\ metricas.uso_cpu_promedio.num = 0
               /\ metricas.uso_memoria_promedio.num = 0
          ELSE /\ metricas.uso_cpu_promedio.num * Len(muestras_cpu)
                     = Suma(muestras_cpu) * metricas.uso_cpu_promedio.den
               /\ metricas.uso_memoria_promedio.num * Len(muestras_memoria)
                     = Suma(muestras_memoria) * metricas.uso_memoria_promedio.den

\* the sampler has completed a run in which every sampling failed
C25_Testigo ==
    /\ hilos[Monitoreo].pc = "fin"
    /\ now >= hilos[Monitoreo].fin
    /\ hilos[Monitoreo].dur > 0
    /\ muestras_cpu = <<>>
    /\ Cuantos(metricas.errores, "Error en monitoreo") >= 2

\* C26: no worker begins a new operation once its deadline (its start time
\* plus the duration it was given) has passed: every operation begins at an
\* instant before the deadline of its thread; an operation in flight is
\* never cut short, it lasts its time and the thread goes on to record it
\* (or to its handler); the clock never goes back, so a thread whose
\* operation ended after the deadline begins no other one.
C26_SinOperacionTrasElPlazo ==
    [][/\ now' >= now
       /\ \A t \in Hilos :
             /\ (Actua(t) /\ hilos'[t].pc = "op") =>
                   /\ hilos'[t].ini = now
                   /\ now < hilos'[t].fin
                   /\ hilos'[t].fin = (IF hilos[t].pc = "iniciado"
                                       THEN now + hilos'[t].dur
                                       ELSE hilos[t].fin)
             /\ (hilos[t].pc = "op" /\ Actua(t)) =>
                   /\ now >= hilos[t].despierta
                   /\ hilos'[t].pc \in {"pausa", "escribir", "except"}
             /\ (hilos[t].pc = "op" /\ Actua(t) /\ Tipo(t) = "consulta"
                   /\ hilos'[t].pc = "pausa") =>
                   metricas'.latencias =
                       Append(metricas.latencias, (now - hilos[t].ini) * 30000)]_vars

\* a query that was in flight when the deadline of its thread passed has
\* been completed and its latency recorded
C26_Testigo ==
    \E t \in HilosConsulta :
        /\ hilos[t].pc = "pausa"
        /\ hilos[t].ini < hilos[t].fin
        /\ now > hilos[t].fin
        /\ hilos[t].despierta = now + PausaConsulta
        /\ metricas.latencias # <<>>
        /\ metricas.latencias[Len(metricas.latencias)]
              = (now - hilos[t].ini) * 30000

\* C27: the vote worker issues votes at the configured rate whatever the
\* latency of the submission: the time between the starts of two
\* consecutive attempts is intervalo_votos, and the attempts of a run of
\* duracion_minutos minutes are votos_por_minuto * duracion_minutos, give or
\* take one.
C27_RitmoDeVotos ==
    [][\A t \in HilosVotos :
          /\ (hilos[t].pc # "op" /\ hilos'[t].pc = "op"
                /\ hilos[t].intentos >= 1) =>
                now - hilos[t].ini = hilos[t].intervalo
          /\ (Vivo(hilos[t]) /\ hilos'[t].pc = "fin") =>
                LET previstos == Config.votos_por_minuto * Config.duracion_minutos
                IN hilos[t].intentos \in (previstos - 1)..(previstos + 1)]_vars

\* C28: a failed vote attempt is never re-attempted at once: whatever the
\* outcome of an attempt (classified as processed, classified as failed, or
\* ended by a raised failure), the vote worker starts the next attempt only
\* on its return from time.sleep(intervalo_votos), having slept the interval.
\* Stated for the runs of configurations whose fields are positive.
C28_PausaTrasCadaIntento ==
    [][\A t \in HilosVotos :
          (Valida(Config) /\ hilos[t].pc \notin {"iniciado", "op"}
              /\ hilos'[t].pc = "op") =>
              /\ hilos[t].pc = "pausa"
              /\ now >= hilos[t].despierta]_vars

\* the sampling cadence of the harness in ticks (2 s / 5 s)
Cadencia == IF harness = "rapido" THEN 1 ELSE 2

\* C29: the sampler samples at a fixed cadence of 2 s (fast harness) or 5 s
\* (standard harness): a sample collected right after the pause that
\* followed the sample before it (no failure in between) comes exactly one
\* cadence after that sample.
C29_CadenciaDeMuestreo ==
    [][(/\ Len(muestras_cpu') = Len(muestras_cpu) + 1
        /\ muestras_cpu # <<>>
        /\ hilos[Monitoreo].pc = "op"
        /\ hilos[Monitoreo].ini = hilos[Monitoreo].ultima + PausaMonitoreo(harness)) =>
          now - hilos[Monitoreo].ultima = Cadencia]_vars

\* s2 is s, or s with one more entry at its end
CrecePorElFinal(s, s2) == Prefijo(s, s2) /\ Len(s2) <= Len(s) + 1

\* C30: during a run the shared record only grows: in every step
\* votos_procesados and votos_fallidos stay or go up by 1, and latencias and
\* errores stay or get one more entry at the end, every earlier entry
\* keeping its position.
C30_RegistroSoloCrece ==
    [][EnCorrida =>
          /\ metricas'.votos_procesados - metricas.votos_procesados \in {0, 1}
          /\ metricas'.votos_fallidos - metricas.votos_fallidos \in {0, 1}
          /\ CrecePorElFinal(metricas.latencias, metricas'.latencias)
          /\ CrecePorElFinal(metricas.errores, metricas'.errores)]_vars

\* in a run in progress a query and a vote of different latencies were
\* recorded, a vote failed and a failure was logged
C30_Testigo ==
    /\ EnCorrida
    /\ Len(metricas.latencias) >= 2
    /\ metricas.latencias[1] # metricas.latencias[2]
    /\ metricas.votos_procesados >= 1
    /\ metricas.votos_fallidos >= 1
    /\ metricas.errores # <<>>

\* C31: in the standard harness the reduction yields latencia_p95 for every
\* non-empty latencias without raising, a list of exactly one value
\* included: once the main thread is past the latency statistics of a run
\* whose latencias is not empty, latencia_p95 is in the record and no
\* StatisticsError was raised.
C31_P95SinLanzar ==
    (/\ harness = "rendimiento"
     /\ metricas.latencias # <<>>
     /\ (mainpc \in {"derivar", "devuelto", "enfriar"}
           \/ excepcion = "StatisticsError")) =>
        /\ excepcion # "StatisticsError"
        /\ "latencia_p95" \in metricas.claves

\* the threads that take a step
Actuan == {t \in Hilos : Actua(t)}

\* C32: the read-modify-write increments of votos_procesados and
\* votos_fallidos never interleave with another writer.  Within a run there
\* is one vote thread, every step that changes one of the two counters is a
\* step of that thread alone, and between the read and the write of an
\* increment the counter still holds the value that was read; every step
\* that changes uso_cpu_promedio or uso_memoria_promedio is a step of the
\* sampler alone; latencias and errores, which several threads write, change
\* only by one append at a time.
C32_UnSoloEscritor ==
    [][EnCorrida =>
          /\ Cardinality(HilosVotos) = 1
          /\ (metricas'.votos_procesados # metricas.votos_procesados
                \/ metricas'.votos_fallidos # metricas.votos_fallidos) =>
                /\ Actuan \subseteq HilosVotos
                /\ Actuan # {}
          /\ \A t \in HilosVotos :
                /\ hilos[t].pc = "escribir" =>
                      hilos[t].tmp = (IF hilos[t].exito
                                      THEN metricas.votos_procesados
                                      ELSE metricas.votos_fallidos)
                /\ hilos[t].pc = "except_escribir" =>
                      hilos[t].tmp = metricas.votos_fallidos
          /\ (metricas'.uso_cpu_promedio # metricas.uso_cpu_promedio
                \/ metricas'.uso_memoria_promedio # metricas.uso_memoria_promedio) =>
                Actuan = {Monitoreo}
          /\ CrecePorElFinal(metricas.latencias, metricas'.latencias)
          /\ CrecePorElFinal(metricas.errores, metricas'.errores)]_vars

\* the vote thread is between the read and the write of an increment while
\* two query threads, which have appended their latencies, and the sampler
\* are running
C32_Testigo ==
    /\ EnCorrida
    /\ \E t \in HilosVotos : hilos[t].pc = "escribir"
    /\ Cardinality({t \in HilosConsulta : hilos[t].pc = "pausa"}) = 2
    /\ Vivo(hilos[Monitoreo])
    /\ Len(metricas.latencias) >= 2

\* duracion_minutos * 60, in ticks
SegundosConfigurados(c) == c.duracion_minutos * TicksPorMinuto

\* C33: a run never returns early: the deadline of every worker of the run
\* is at or after the start of the run plus duracion_minutos * 60, every
\* returned record has duracion_real >= duracion_minutos * 60, and its
\* throughput is at most votos_procesados / duracion_minutos.
C33_LaCorridaNoVuelveAntes ==
    /\ EnCorrida =>
          \A t \in Iniciados :
              hilos[t].pc # "iniciado" =>
                  hilos[t].fin >= inicio + SegundosConfigurados(Config)
    /\ \A r \in Devueltos :
          /\ r.duracion_real >= SegundosConfigurados(r.configuracion)
          /\ r.throughput.den > 0
          /\ r.throughput.num * r.configuracion.duracion_minutos
                <= r.votos_procesados * r.throughput.den

\* the second run of a suite, started after time had passed, has returned
\* a record with processed votes, and it lasted longer than configured
C33_Testigo ==
    /\ Len(resultados) = 2
    /\ resultados[2].timestamp > 0
    /\ resultados[2].votos_procesados >= 1
    /\ resultados[2].throughput.num > 0
    /\ resultados[2].duracion_real
          > SegundosConfigurados(resultados[2].configuracion)

====
